---- MODULE Spec2Model ----
(***************************************************************************)
(* Shooting-gallery game: the Game class of src/src/game.js (match state,  *)
(* countdown, target lifecycle, hit resolution) and the gesture code of    *)
(* src/src/main.js (pinch latch, cooldown, render tick).                   *)
(*                                                                         *)
(* Units.  Floats are modelled by integers on a fixed lattice:             *)
(*   time      1/UnitsPerSecond s   (dt, timeLeft, pinchCooldown)          *)
(*   rotation  1/UnitsPerSecond rad (so that `5 * dt` is the code's own    *)
(*             product); Math.PI / 2 = 1.5708 rad is HalfPi = 25 units     *)
(*   landmarks 1/LandmarkScale of the normalised camera frame              *)
(* Spec drives the Game class through its public methods; SpecMain is the  *)
(* program of main.js (button click, render tick, detection callback).     *)
(*                                                                         *)
(* The list a raycast returns is local to shoot(); of the last one the     *)
(* model keeps                                                             *)
(*   nearest         its first target (0: none, or no raycast yet)         *)
(*   standingBehind  whether a target behind the first one was standing    *)
(*                                                                         *)
(* History variables (read by no guard; ticks only by the tick bound):     *)
(*   started     start() has been called                                   *)
(*   elapsed     sum of the dt of the update() calls since the last        *)
(*               start(), counted up to totalTime + 1                      *)
(*   endCount    endGame() calls since the last start()                    *)
(*   ticks       update() calls since the last start() that went past the  *)
(*               isPlaying guard; at most MaxTicks of them in a match      *)
(*   idleUpdate  some update() since the last start() (or construction)    *)
(*               returned at the isPlaying guard                           *)
(*   credited    per target, the hits credited since the last start()      *)
(*   fireCount   fire events so far, counted up to 2                       *)
(*   sinceFire   sum of the dt of the render ticks since the last fire     *)
(*               event, counted up to the cooldown                         *)
(*   released    since the last fire event some frame showed a hand with   *)
(*               thumb-index distance >= threshold                         *)
(***************************************************************************)
EXTENDS Integers, Sequences, FiniteSets, TLC

VARIABLES
  score, timeLeft, isPlaying, dolls, loaded, barScale,  \* Game fields and its UI output
  nearest, standingBehind, shotResult,                  \* last raycast (summary), last return value of shoot()
  handResults, isPinching, pinchCooldown, crosshair,    \* main.js module state and the crosshair element
  started, elapsed, endCount, ticks, idleUpdate, credited,  \* history of the current match
  fireCount, sinceFire, released                        \* history of the fire events

gameVars  == <<score, timeLeft, isPlaying, dolls, loaded, barScale>>
shotVars  == <<nearest, standingBehind, shotResult>>
mainVars  == <<handResults, isPinching, pinchCooldown, crosshair>>
matchHist == <<started, elapsed, endCount, ticks, idleUpdate, credited>>
fireHist  == <<fireCount, sinceFire, released>>
vars == <<gameVars, shotVars, mainVars, matchHist, fireHist>>

----------------------------------------------------------------------------
(* Scales and program constants *)

UnitsPerSecond == 16
LandmarkScale == 100

totalTime == 30 * UnitsPerSecond
BarSeconds == 60
FallRate == 5
HalfPi == 25
CooldownTenths == 5
PinchCooldownInit == (CooldownTenths * UnitsPerSecond) \div 10
PINCH_THRESHOLD == 5
ShelfCount == 3
BaseCount == 5

(* Bounds of the model: the targets kept of the 18 the code creates, the    *)
(* update() calls per match, the targets on one ray                        *)
MaxDolls == 3
MaxTicks == 2
MaxHits == 2

Min(a, b) == IF a < b THEN a ELSE b

(* clock.getDelta(): a still frame, two ordinary frames, and one long      *)
(* enough to run the match down to its last moments (a tab that was in the *)
(* background).                                                            *)
DtSet == {0, 3, 5, totalTime - 3}

----------------------------------------------------------------------------
(* Game.createDolls *)

shelfY == <<2, -1, -4>>

\* game.js:61 `5 + layerIndex`, of which the model keeps MaxDolls targets in
\* all, dealt to the shelves in turn from the top
DollCount(layerIndex) ==
  Min(BaseCount + layerIndex, (MaxDolls + ShelfCount - 1 - layerIndex) \div ShelfCount)

\* points that grow towards the bottom shelf
DollPoints_bottomUp(layerIndex) == (layerIndex + 1) * 10

\* game.js:73  `points: (3 - layerIndex) * 10`
DollPoints(layerIndex) == (3 - layerIndex) * 10

NewDoll(layerIndex) ==
  [layer |-> layerIndex, points |-> DollPoints(layerIndex), state |-> "standing", rot |-> 0]

RECURSIVE ShelfDolls(_)
ShelfDolls(layerIndex) ==
  IF layerIndex >= ShelfCount THEN <<>>
  ELSE [i \in 1..DollCount(layerIndex) |-> NewDoll(layerIndex)] \o ShelfDolls(layerIndex + 1)

createDolls == ShelfDolls(0)

----------------------------------------------------------------------------
(* Game: helpers, one per decision of the code *)

DollIds == DOMAIN dolls

\* update without its isPlaying guard
UpdateRuns_unguarded(playing) == TRUE

\* game.js:103  `if (!this.isPlaying) return;`  update goes on iff playing
UpdateRuns(playing) == playing

\* game.js:129  `if (!this.isPlaying) return;`  shoot goes on iff playing
ShootRuns(playing) == playing

\* the expiry test with < for <=
TimeUp_strict(t) == t < 0

\* game.js:107  `if (this.timeLeft <= 0)`
TimeUp(t) == t <= 0

\* the timer without its clamp
TimerAfter_unclamped(t, dt) == t - dt

\* game.js:106-109  the timer after one update: decrement, clamp at 0
TimerAfter(t, dt) == IF TimeUp(t - dt) THEN 0 ELSE t - dt

\* a reset that forgets the rotation
ResetDoll_keepRot(d) == [d EXCEPT !.state = "standing"]

\* game.js:96-99  reset of one doll in start()
ResetDoll(d) == [d EXCEPT !.rot = 0, !.state = "standing"]

\* a target that does not move once hit
FallStep_still(d, dt) == d

\* a fall that is not stopped at the terminal angle
FallStep_unclamped(d, dt) ==
  IF d.state = "falling"
  THEN LET r == d.rot - FallRate * dt
       IN  IF r < -HalfPi
           THEN [d EXCEPT !.rot = r, !.state = "fallen"]
           ELSE [d EXCEPT !.rot = r]
  ELSE d

\* game.js:115-121  fall animation of one doll in update(dt)
FallStep(d, dt) ==
  IF d.state = "falling"
  THEN LET r == d.rot - FallRate * dt
       IN  IF r < -HalfPi
           THEN [d EXCEPT !.rot = -HalfPi, !.state = "fallen"]
           ELSE [d EXCEPT !.rot = r]
  ELSE d

\* the farthest intersected target instead of the nearest
HitObj_farthest(hits) == hits[Len(hits)]

\* game.js:138  `intersects[0].object`: the nearest intersected target
HitObj(hits) == hits[1]

\* a target that is still falling can be hit again
Hittable_notFallen(d) == d.state # "fallen"

\* any target can be hit, whatever its state
Hittable_always(d) == TRUE

\* game.js:139  `hitObj.userData.state === "standing"`
Hittable(d) == d.state = "standing"

\* every hit is worth the bottom shelf's points
Credit_flat(s, d) == s + 10

\* game.js:142  `this.score += hitObj.userData.points`
Credit(s, d) == s + d.points

\* game.js:154-155  scaleX(pct / 100), pct = timeLeft / 60 * 100: the bar's
\* scale is barScale / BarDenominator
BarDenominator == BarSeconds * UnitsPerSecond
updateUI(t) == t

\* THREE.Raycaster.intersectObjects: any nearest-first list of distinct targets
RECURSIVE SeqsUpTo(_, _)
SeqsUpTo(S, n) ==
  IF n = 0 THEN {<<>>}
  ELSE LET shorter == SeqsUpTo(S, n - 1)
       IN  shorter \cup {Append(h, x) : h \in {g \in shorter : Len(g) = n - 1}, x \in S}

Distinct(h) == \A i, j \in DOMAIN h : i # j => h[i] # h[j]

AllHitLists == {h \in SeqsUpTo(DOMAIN createDolls, MaxHits) : Distinct(h)}

HitLists == IF loaded THEN AllHitLists ELSE {<<>>}

\* what the model keeps of a raycast
Nearest(hits) == IF Len(hits) > 0 THEN hits[1] ELSE 0
StandingBehind(hits) == \E k \in 2..Len(hits) : dolls[hits[k]].state = "standing"

----------------------------------------------------------------------------
(* Game: the methods. Each fixes the Game fields, the shot outputs and the  *)
(* match history (start and update also the crosshair element, which       *)
(* endGame hides); the callers fix the rest.                               *)

\* Game.start, game.js:89-100
start ==
  /\ score' = 0
  /\ timeLeft' = totalTime
  /\ isPlaying' = TRUE
  /\ barScale' = updateUI(totalTime)
  /\ dolls' = [i \in DollIds |-> ResetDoll(dolls[i])]
  /\ started' = TRUE
  /\ elapsed' = 0
  /\ endCount' = 0
  /\ ticks' = 0
  /\ idleUpdate' = FALSE
  /\ credited' = [i \in DollIds |-> 0]
  /\ UNCHANGED <<loaded, shotVars, crosshair>>

\* Game.endGame, game.js:162-168 (the part that is state of the model)
endGame(ch) == [ch EXCEPT !.opacity = "0"]

\* Game.update, game.js:102-126
update(dt) ==
  /\ elapsed' = IF started THEN Min(elapsed + dt, totalTime + 1) ELSE elapsed
  /\ IF ~UpdateRuns(isPlaying)
     THEN /\ idleUpdate' = TRUE
          /\ UNCHANGED <<timeLeft, isPlaying, dolls, barScale, crosshair, endCount, ticks>>
     ELSE /\ ticks < MaxTicks
          /\ ticks' = ticks + 1
          /\ UNCHANGED idleUpdate
          /\ timeLeft' = TimerAfter(timeLeft, dt)
          /\ IF TimeUp(timeLeft - dt)
             THEN /\ isPlaying' = FALSE
                  /\ crosshair' = endGame(crosshair)
                  /\ endCount' = endCount + 1
             ELSE UNCHANGED <<isPlaying, crosshair, endCount>>
          /\ dolls' = [i \in DollIds |-> FallStep(dolls[i], dt)]
          /\ barScale' = updateUI(timeLeft')
  /\ UNCHANGED <<score, loaded, shotVars, started, credited>>

\* Game.shoot, game.js:128-149
shoot(hits) ==
  /\ IF ~ShootRuns(isPlaying)
     THEN /\ shotResult' = "undefined"
          /\ UNCHANGED <<nearest, standingBehind, score, dolls, credited>>
     ELSE /\ nearest' = Nearest(hits)
          /\ standingBehind' = StandingBehind(hits)
          /\ IF Len(hits) > 0 /\ Hittable(dolls[HitObj(hits)])
             THEN /\ dolls' = [dolls EXCEPT ![HitObj(hits)].state = "falling"]
                  /\ score' = Credit(score, dolls[HitObj(hits)])
                  /\ credited' = [credited EXCEPT ![HitObj(hits)] = Min(@ + 1, 2)]
                  /\ shotResult' = "true"
             ELSE /\ shotResult' = "false"
                  /\ UNCHANGED <<score, dolls, credited>>
  /\ UNCHANGED <<timeLeft, isPlaying, loaded, barScale>>
  /\ UNCHANGED <<started, elapsed, endCount, ticks, idleUpdate>>

\* initWorld's texture callback, game.js:23-40: the dolls appear once the
\* background image has loaded, whenever that is
TextureLoaded ==
  /\ ~loaded
  /\ loaded' = TRUE
  /\ dolls' = dolls \o createDolls
  /\ credited' = credited \o [i \in DOMAIN createDolls |-> 0]
  /\ UNCHANGED <<score, timeLeft, isPlaying, barScale, shotVars, mainVars>>
  /\ UNCHANGED <<started, elapsed, endCount, ticks, idleUpdate, fireHist>>

----------------------------------------------------------------------------
(* The Game class driven through its public methods *)

NullResults == [multiHandLandmarks |-> <<>>]

Init ==
  /\ score = 0
  /\ timeLeft = totalTime
  /\ isPlaying = FALSE
  /\ dolls = <<>>
  /\ loaded = FALSE
  /\ barScale = -1
  /\ nearest = 0
  /\ standingBehind = FALSE
  /\ shotResult = "none"
  /\ handResults = NullResults
  /\ isPinching = FALSE
  /\ pinchCooldown = 0
  /\ crosshair = [left |-> -1, top |-> -1, opacity |-> "", shooting |-> FALSE]
  /\ started = FALSE
  /\ elapsed = 0
  /\ endCount = 0
  /\ ticks = 0
  /\ idleUpdate = FALSE
  /\ credited = <<>>
  /\ fireCount = 0
  /\ sinceFire = 0
  /\ released = FALSE

Start == start /\ UNCHANGED <<handResults, isPinching, pinchCooldown, fireHist>>

Update(dt) == update(dt) /\ UNCHANGED <<handResults, isPinching, pinchCooldown, fireHist>>

Shoot(hits) == shoot(hits) /\ UNCHANGED <<mainVars, fireHist>>

Next ==
  \/ Start
  \/ \E dt \in DtSet : Update(dt)
  \/ \E hits \in HitLists : Shoot(hits)
  \/ TextureLoaded

Spec == Init /\ [][Next]_vars

----------------------------------------------------------------------------
(* main.js: gesture interpreter and render loop *)

\* One detected hand: the two landmarks the code reads, landmarks[8] and
\* landmarks[4], in 1/LandmarkScale of the frame
Hand(ix, iy, tx, ty) == [indexTip |-> <<ix, iy>>, thumbTip |-> <<tx, ty>>]

\* a closed pinch (distance 0.01), an open hand (0.06), and a hand whose
\* thumb-index distance is exactly the threshold (0.03, 0.04 apart: 0.05)
Hands == {Hand(50, 50, 50, 51), Hand(50, 50, 56, 50), Hand(20, 70, 23, 74)}

Results == {NullResults} \cup {[multiHandLandmarks |-> <<h>>] : h \in Hands}

\* main.js:83  no results, no landmark list, or an empty one
NoHand(r) == Len(r.multiHandLandmarks) = 0

\* main.js:96-97  mirrored index fingertip, in 1/LandmarkScale of the window
\* width and height
AimX(hand) == LandmarkScale - hand.indexTip[1]
AimY(hand) == hand.indexTip[2]

\* main.js:105-108  squared Euclidean distance thumb tip - index tip
DistanceSq(hand) ==
  (hand.indexTip[1] - hand.thumbTip[1]) * (hand.indexTip[1] - hand.thumbTip[1])
  + (hand.indexTip[2] - hand.thumbTip[2]) * (hand.indexTip[2] - hand.thumbTip[2])

\* main.js:110  `distance < PINCH_THRESHOLD`, both sides squared
Pinched(hand) == DistanceSq(hand) < PINCH_THRESHOLD * PINCH_THRESHOLD

\* a fire condition that ignores the cooldown
CanFire_noCooldown(pinching, cooldown) == ~pinching

\* main.js:111  `!isPinching && pinchCooldown <= 0`
CanFire(pinching, cooldown) == ~pinching /\ cooldown <= 0

\* a cooldown that runs down only while a match is playing
CooldownAfter_onlyPlaying(cooldown, dt) == IF cooldown > 0 /\ isPlaying THEN cooldown - dt ELSE cooldown

\* main.js:140  `if (pinchCooldown > 0) pinchCooldown -= dt`
CooldownAfter(cooldown, dt) == IF cooldown > 0 THEN cooldown - dt ELSE cooldown

\* a shot that leaves the latch open
LatchOnFire_open == FALSE

\* main.js:114  the latch set by a shot
LatchOnFire == TRUE

\* a frame that shows a hand with the fingers apart (distance >= threshold)
ReleaseFrame(r) == ~NoHand(r) /\ ~Pinched(r.multiHandLandmarks[1])

\* main.js:83-111  the frames on which processGestures reaches fireShot
FireEnabled(r) ==
  /\ ~NoHand(r)
  /\ isPlaying
  /\ Pinched(r.multiHandLandmarks[1])
  /\ CanFire(isPinching, pinchCooldown)

\* main.js:110-117 with fireShot (124-131): the shot of a fresh pinch
FireShot(r, hits) ==
  LET hand == r.multiHandLandmarks[1] IN
  /\ FireEnabled(r)
  /\ handResults' = r
  /\ shoot(hits)
  /\ isPinching' = LatchOnFire
  /\ pinchCooldown' = PinchCooldownInit
  /\ crosshair' = [left |-> AimX(hand), top |-> AimY(hand), opacity |-> "1", shooting |-> TRUE]
  /\ fireCount' = Min(fireCount + 1, 2)
  /\ sinceFire' = 0
  /\ released' = FALSE

\* hands.onResults with processGestures, main.js:62-65 and 82-122, the
\* frames that fire nothing
NoShot(r) ==
  /\ handResults' = r
  /\ released' = (released \/ ReleaseFrame(r))
  /\ UNCHANGED <<gameVars, shotVars, matchHist, pinchCooldown, fireCount, sinceFire>>
  /\ IF NoHand(r)
     THEN /\ crosshair' = [crosshair EXCEPT !.opacity = "0"]
          /\ UNCHANGED isPinching
     ELSE IF ~isPlaying
     THEN UNCHANGED <<crosshair, isPinching>>
     ELSE LET hand == r.multiHandLandmarks[1]
              aimed == [crosshair EXCEPT !.left = AimX(hand), !.top = AimY(hand), !.opacity = "1"]
          IN  IF Pinched(hand)
              THEN /\ ~CanFire(isPinching, pinchCooldown)
                   /\ crosshair' = aimed
                   /\ UNCHANGED isPinching
              ELSE /\ isPinching' = FALSE
                   /\ crosshair' = [aimed EXCEPT !.shooting = FALSE]

OnResults(r) == NoShot(r) \/ (FireEnabled(r) /\ \E hits \in HitLists : FireShot(r, hits))

\* a render tick that opens the latch
animate_rearms(dt) ==
  /\ pinchCooldown' = CooldownAfter(pinchCooldown, dt)
  /\ update(dt)
  /\ sinceFire' = Min(sinceFire + dt, PinchCooldownInit)
  /\ isPinching' = FALSE
  /\ UNCHANGED <<handResults, fireCount, released>>

\* animate, main.js:136-144
animate(dt) ==
  /\ pinchCooldown' = CooldownAfter(pinchCooldown, dt)
  /\ update(dt)
  /\ sinceFire' = Min(sinceFire + dt, PinchCooldownInit)
  /\ UNCHANGED <<handResults, isPinching, fireCount, released>>

NextMain ==
  \/ Start
  \/ TextureLoaded
  \/ \E dt \in DtSet : animate(dt)
  \/ \E r \in Results : OnResults(r)

SpecMain == Init /\ [][NextMain]_vars

----------------------------------------------------------------------------
(* Properties of the Game class (checked under Spec) *)

\* the steps that are an update() call, and those that are a shoot() call;
\* in a shoot() step of a playing match, nearest' is the first target of the
\* list the raycast returned
UpdateStep == \E dt \in DtSet : Update(dt)
ShootStep == \E hits \in HitLists : Shoot(hits)

\* C1: while isPlaying is false, a call of update(dt) or shoot(aim) leaves
\* score, timeLeft, isPlaying and every target (state and rotation)
\* unchanged, and shoot does not report a hit.
C1_IdleCallsAreNoOps ==
  [][~isPlaying =>
       /\ UpdateStep => UNCHANGED <<score, timeLeft, isPlaying, dolls>>
       /\ ShootStep => (UNCHANGED <<score, timeLeft, isPlaying, dolls>> /\ shotResult' # "true")
    ]_vars

\* a match has ended with points scored, and a shoot() made after the end
\* returned without a hit
C1_Witness ==
  /\ ~isPlaying
  /\ endCount = 1
  /\ score > 0
  /\ shotResult = "undefined"
  /\ idleUpdate

\* C2: a shot whose nearest target is standing makes it falling, adds its
\* points once and reports a hit; a shot whose nearest target is falling or
\* fallen reports a miss and changes neither the score nor that target; no
\* target is credited twice in one match.
C2_CreditedOnce ==
  /\ [](\A i \in DOMAIN credited : credited[i] <= 1)
  /\ [][(isPlaying /\ ShootStep /\ nearest' # 0) =>
          IF dolls[nearest'].state = "standing"
          THEN /\ dolls'[nearest'].state = "falling"
               /\ score' = score + dolls[nearest'].points
               /\ shotResult' = "true"
          ELSE /\ dolls'[nearest'] = dolls[nearest']
               /\ score' = score
               /\ shotResult' = "false"
       ]_vars

\* a credited target, still falling, was the nearest target of the last
\* shot, and that shot missed
C2_Witness ==
  /\ isPlaying
  /\ shotResult = "false"
  /\ nearest # 0
  /\ dolls[nearest].state = "falling"
  /\ credited[nearest] = 1
  /\ score = dolls[nearest].points

\* C3: shoot looks at the nearest intersected target only: with an empty
\* list or a nearest target that is not standing, the shot is a miss and
\* changes no target and no score, even with a standing target farther on
\* the ray; no shot changes more than one target.
C3_NearestOnly ==
  [][ShootStep =>
       /\ Cardinality({i \in DollIds : dolls'[i] # dolls[i]}) <= 1
       /\ (isPlaying /\ (nearest' = 0 \/ dolls[nearest'].state # "standing")) =>
            (dolls' = dolls /\ score' = score /\ shotResult' = "false")
    ]_vars

\* the last shot missed on a ray whose nearest target was down and which
\* went on through a standing target
C3_Witness ==
  /\ shotResult = "false"
  /\ nearest # 0
  /\ dolls[nearest].state # "standing"
  /\ standingBehind

\* C4: once the dt of the update() calls since start() sum to at least the
\* match duration, timeLeft is 0, isPlaying is false and endGame has run
\* exactly once in this match, however many update() calls follow.
C4_EndsExactlyOnce ==
  /\ endCount <= 1
  /\ (started /\ elapsed >= totalTime) =>
       (timeLeft = 0 /\ ~isPlaying /\ endCount = 1)

\* the match has run out and update() has been called again after its end
C4_Witness ==
  /\ started
  /\ elapsed >= totalTime
  /\ endCount = 1
  /\ idleUpdate

\* C5: timeLeft stays within 0..totalTime, and a match that is playing has
\* time left.
C5_TimeLeftRange ==
  /\ timeLeft >= 0
  /\ timeLeft <= totalTime
  /\ isPlaying => timeLeft > 0

\* an update overshot the end of the match and the timer reads 0
C5_Witness ==
  /\ started
  /\ elapsed > totalTime
  /\ timeLeft = 0
  /\ ~isPlaying

Fresh ==
  /\ score = 0
  /\ timeLeft = totalTime
  /\ isPlaying
  /\ \A i \in DollIds : dolls[i].state = "standing" /\ dolls[i].rot = 0

\* C6: start() from any state gives score 0, timeLeft = totalTime, isPlaying
\* and every target standing with rotation 0; start() on a state that start()
\* gives (every such state is Fresh) changes nothing.
C6_StartResets ==
  [][Start => (Fresh' /\ (Fresh => UNCHANGED <<gameVars, shotVars, crosshair>>))]_vars

\* a match in which a target was hit has been reset by start()
C6_Witness ==
  /\ Fresh
  /\ loaded
  /\ shotResult = "true"
  /\ crosshair.opacity = "0"

\* C7: a target's state changes only standing -> falling in a shoot() and
\* falling -> fallen in an update(); only start() makes a target standing.
C7_ForwardOnly ==
  [][\A i \in DOMAIN dolls \cap DOMAIN dolls' :
       dolls'[i].state # dolls[i].state =>
         \/ dolls[i].state = "standing" /\ dolls'[i].state = "falling" /\ ShootStep
         \/ dolls[i].state = "falling" /\ dolls'[i].state = "fallen" /\ UpdateStep
         \/ dolls'[i].state = "standing" /\ Start
    ]_vars

\* the last shot went at a fallen target, which is still fallen
C7_Witness ==
  /\ isPlaying
  /\ shotResult = "false"
  /\ nearest # 0
  /\ dolls[nearest].state = "fallen"
  /\ dolls[nearest].rot = -HalfPi

\* C8: in a step that is not a start(), score does not decrease; when it
\* changes, the step is a shoot() in which exactly one target goes from
\* standing to falling and score grows by that target's points; update()
\* leaves score alone.
C8_ScoreOnlyByHit ==
  [][~Start =>
       /\ score' >= score
       /\ UpdateStep => score' = score
       /\ score' # score =>
            /\ ShootStep
            /\ \E i \in DollIds :
                 /\ dolls[i].state = "standing"
                 /\ dolls'[i].state = "falling"
                 /\ score' = score + dolls[i].points
                 /\ \A j \in DollIds \ {i} : dolls'[j] = dolls[j]
    ]_vars

\* two hits in one match, on the top and on the middle shelf
C8_Witness ==
  /\ shotResult = "true"
  /\ score = 50
  /\ \E i \in DollIds : dolls[i].state = "falling" /\ dolls[i].rot = 0

\* the update() calls with dt > 0
PositiveUpdateStep == \E dt \in DtSet \ {0} : Update(dt)

\* C13: a falling target's rotation strictly decreases on every update(dt)
\* with dt > 0 of a playing match and never goes below the terminal angle;
\* a target whose rotation has reached the terminal angle is fallen, and a
\* fallen target's rotation is changed by no update() and no shoot(), only
\* by start().
C13_FallEndsAtTerminalAngle ==
  /\ [](\A i \in DollIds :
          /\ dolls[i].rot >= -HalfPi
          /\ dolls[i].rot = -HalfPi => dolls[i].state = "fallen")
  /\ [][\A i \in DOMAIN dolls \cap DOMAIN dolls' :
          /\ (dolls[i].state = "falling" /\ isPlaying /\ PositiveUpdateStep) =>
               dolls'[i].rot < dolls[i].rot
          /\ (dolls[i].state = "fallen" /\ ~Start) => dolls'[i].rot = dolls[i].rot
       ]_vars

\* C14: the match goes not-started -> playing -> ended -> playing: a match
\* that is not playing has either never been started or has ended, and a
\* started game is never not-started again; isPlaying becomes true only in
\* start(), and false only in an update() in which timeLeft reaches 0;
\* shoot() changes neither isPlaying nor timeLeft.
C14_MatchStateMachine ==
  /\ [](~isPlaying => (~started \/ (endCount = 1 /\ timeLeft = 0)))
  /\ [][/\ started => started'
        /\ (~isPlaying /\ isPlaying') => Start
        /\ (isPlaying /\ ~isPlaying') => (UpdateStep /\ timeLeft > 0 /\ timeLeft' = 0)
        /\ ShootStep => UNCHANGED <<isPlaying, timeLeft>>
       ]_vars

\* a second match is under way: the first one ended (endGame hid the
\* crosshair), start() was called again and time has passed since
C14_Witness ==
  /\ isPlaying
  /\ endCount = 0
  /\ crosshair.opacity = "0"
  /\ timeLeft < totalTime
  /\ shotResult # "none"

\* main.js:136-144  animate re-arms itself with requestAnimationFrame on
\* every run, so render ticks, and with them update(dt) calls with dt > 0,
\* keep coming for as long as they can change anything
SpecTicking == Init /\ [][Next]_vars /\ WF_vars(PositiveUpdateStep)

\* a match is followed for MaxTicks updates
TickBound == isPlaying /\ ticks = MaxTicks

\* C15 (as claimed): every target that enters falling eventually becomes
\* fallen or is reset by start(), as long as update(dt) calls with dt > 0
\* keep occurring, also when the match ends during the fall. A target that
\* has come to the terminal angle counts as having completed its fall.
C15_FallingCompletes ==
  \A i \in DOMAIN createDolls :
    (i \in DollIds /\ dolls[i].state = "falling") ~>
      \/ i \notin DollIds
      \/ dolls[i].state # "falling"
      \/ dolls[i].rot = -HalfPi
      \/ TickBound

\* C15 (amended): every target that enters falling eventually becomes fallen
\* or is reset by start(), as long as update(dt) calls with dt > 0 keep
\* occurring while the match is playing: each such call lowers its rotation
\* or makes it fallen. A target still falling when the match ends stays as
\* it is, state and rotation, until start().
C15_FallingCompletesWhilePlaying ==
  /\ \A i \in DOMAIN createDolls :
       (i \in DollIds /\ dolls[i].state = "falling") ~>
         (i \notin DollIds \/ dolls[i].state # "falling" \/ ~isPlaying \/ TickBound)
  /\ [][\A i \in DOMAIN dolls \cap DOMAIN dolls' :
          dolls[i].state = "falling" =>
            /\ (isPlaying /\ PositiveUpdateStep) =>
                 (dolls'[i].rot < dolls[i].rot \/ dolls'[i].state = "fallen")
            /\ (~isPlaying /\ ~Start) => dolls'[i] = dolls[i]
       ]_vars

\* the match ended while a target was part of the way down, and update()
\* has been called with dt > 0 since: the target is where it was
C15_Witness ==
  /\ ~isPlaying
  /\ endCount = 1
  /\ idleUpdate
  /\ elapsed > totalTime
  /\ \E i \in DollIds :
       /\ dolls[i].state = "falling"
       /\ dolls[i].rot < 0
       /\ dolls[i].rot > -HalfPi

\* C17: the time-remaining fraction shown after start() and after every
\* update() of a playing match, barScale / BarDenominator, is timeLeft as a
\* fraction of totalTime: it lies in 0..1, is 1 right after start() and is
\* 0 when the match ends.
C17_BarIsFractionOfTotal ==
  [][/\ (Start \/ (isPlaying /\ UpdateStep)) =>
          /\ barScale' * totalTime = timeLeft' * BarDenominator
          /\ barScale' >= 0
          /\ barScale' <= BarDenominator
     /\ Start => barScale' = BarDenominator
     /\ (isPlaying /\ ~isPlaying') => barScale' = 0
    ]_vars

\* the row of a shelf counted from the bottom one (1), by shelf height
RowFromBottom(layerIndex) ==
  Cardinality({k \in DOMAIN shelfY : shelfY[k] <= shelfY[layerIndex + 1]})

\* C18: a target's points are (its row from the bottom) * 10: 30 on the top
\* shelf, 20 on the middle, 10 on the bottom one; of two targets the one on
\* the higher shelf is worth strictly more; every value is a positive
\* multiple of 10; no start(), update() or shoot() changes a value.
C18_PointsByShelf ==
  /\ [](\A i \in DollIds :
          /\ dolls[i].points = RowFromBottom(dolls[i].layer) * 10
          /\ dolls[i].points > 0
          /\ dolls[i].points % 10 = 0
          /\ \A j \in DollIds :
               shelfY[dolls[i].layer + 1] > shelfY[dolls[j].layer + 1] =>
                 dolls[i].points > dolls[j].points)
  /\ [][\A i \in DOMAIN dolls \cap DOMAIN dolls' :
          /\ dolls'[i].points = dolls[i].points
          /\ dolls'[i].layer = dolls[i].layer
       ]_vars

\* a top-shelf target is down and a bottom-shelf target has just been hit:
\* 30 + 10 points
C18_Witness ==
  /\ isPlaying
  /\ score = 40
  /\ \E i, j \in DollIds :
       /\ shelfY[dolls[i].layer + 1] = 2
       /\ dolls[i].state = "fallen"
       /\ shelfY[dolls[j].layer + 1] = -4
       /\ dolls[j].state = "falling"
       /\ dolls[j].rot = 0

\* the points of the targets in S added up
RECURSIVE SumPoints(_)
SumPoints(S) ==
  IF S = {} THEN 0
  ELSE LET i == CHOOSE k \in S : TRUE
       IN  dolls[i].points + SumPoints(S \ {i})

Down == {i \in DollIds : dolls[i].state \in {"falling", "fallen"}}

\* C19: in every reachable state score is the sum of the points of the
\* targets that are falling or fallen; so score is 0 exactly when every
\* target is standing, and score never exceeds the sum over all targets.
C19_ScoreIsSumOfDown ==
  /\ score = SumPoints(Down)
  /\ (score = 0) <=> (\A i \in DollIds : dolls[i].state = "standing")
  /\ score <= SumPoints(DollIds)

\* one target is down, one is on its way down and one still stands
C19_Witness ==
  /\ score = 50
  /\ \E i, j, k \in DollIds :
       /\ dolls[i].state = "fallen" /\ dolls[i].points = 30
       /\ dolls[j].state = "falling" /\ dolls[j].points = 20
       /\ dolls[k].state = "standing"

\* C20: in every reachable state a standing target has rotation 0, a fallen
\* target has rotation exactly the terminal angle, a falling target has a
\* rotation from the terminal angle to 0, and no rotation is outside that
\* range.
C20_StateAndRotationAgree ==
  \A i \in DollIds :
    /\ dolls[i].state = "standing" => dolls[i].rot = 0
    /\ dolls[i].state = "fallen" => dolls[i].rot = -HalfPi
    /\ dolls[i].state = "falling" => (dolls[i].rot >= -HalfPi /\ dolls[i].rot <= 0)
    /\ dolls[i].rot >= -HalfPi
    /\ dolls[i].rot <= 0
    /\ dolls[i].state \in {"standing", "falling", "fallen"}

\* the three states side by side: a target at rest, one part of the way
\* down and one that an update stopped at the terminal angle
C20_Witness ==
  \E i, j, k \in DollIds :
    /\ dolls[i].state = "standing" /\ dolls[i].rot = 0
    /\ dolls[j].state = "falling" /\ dolls[j].rot < 0 /\ dolls[j].rot > -HalfPi
    /\ dolls[k].state = "fallen" /\ dolls[k].rot = -HalfPi

----------------------------------------------------------------------------
(* Properties of the gesture code (checked under SpecMain) *)

\* a step is a fire event iff it is FireShot for the frame it leaves in
\* handResults, with a raycast list that gives the nearest' and the
\* standingBehind' of the step
FireStep ==
  /\ FireEnabled(handResults')
  /\ sinceFire' = 0
  /\ \E hits \in {h \in HitLists : Nearest(h) = nearest' /\ StandingBehind(h) = standingBehind'} :
       FireShot(handResults', hits)

\* C9: between two consecutive fire events some frame shows a hand with
\* thumb-index distance >= 0.05: a pinch that is held fires once.
C9_OneFirePerPinch ==
  [][(fireCount > 0 /\ FireStep) => released]_vars

\* after a second shot the pinch is held; the cooldown has run out and no
\* frame has shown the fingers apart
C9_Witness ==
  /\ fireCount = 2
  /\ isPlaying
  /\ isPinching
  /\ ~released
  /\ pinchCooldown <= 0
  /\ handResults # NullResults

\* C10: the render ticks between two consecutive fire events have dt that
\* sum to at least the 0.5 s cooldown.
C10_CooldownBetweenFires ==
  [][(fireCount > 0 /\ FireStep) => sinceFire >= PinchCooldownInit]_vars

\* a second shot has just been fired
C10_Witness ==
  /\ fireCount = 2
  /\ sinceFire = 0
  /\ pinchCooldown = PinchCooldownInit

\* the steps that are a detection frame which fires nothing
QuietFrame == NoShot(handResults')

\* C11: releasing the pinch always re-arms the latch: after any detection
\* frame that shows a hand with thumb-index distance >= 0.05, isPinching is
\* false, whether or not a match is playing; so the next frame below the
\* threshold that comes with cooldown <= 0 in a playing match fires.
C11_ReleaseRearms ==
  [][/\ (QuietFrame /\ ReleaseFrame(handResults')) => ~isPinching'
     /\ ( /\ ReleaseFrame(handResults)
          /\ ~NoHand(handResults')
          /\ Pinched(handResults'.multiHandLandmarks[1])
          /\ isPlaying
          /\ pinchCooldown <= 0 ) => FireStep
    ]_vars

\* the steps that are a detection frame, firing or not
FrameStep == QuietFrame \/ FireStep

\* the cooldown that is left: the code lets the variable run below 0 once
\* and tests it with <= 0
Remaining(cooldown) == IF cooldown > 0 THEN cooldown ELSE 0

\* C12: a detection frame with no hand fires nothing and changes neither
\* isPinching nor the cooldown; every render tick takes its dt off the
\* cooldown that is left, with or without a hand in the last frame and
\* whether or not a match is playing.
C12_NoHandInertCooldownDecays ==
  [][/\ (FrameStep /\ NoHand(handResults')) =>
          UNCHANGED <<isPinching, pinchCooldown, fireCount, sinceFire, gameVars, shotVars>>
     /\ \A dt \in DtSet : animate(dt) =>
          /\ pinchCooldown > 0 => pinchCooldown' = pinchCooldown - dt
          /\ Remaining(pinchCooldown') = Remaining(Remaining(pinchCooldown) - dt)
    ]_vars

\* after a shot the match has ended and the hand has left the frame; the
\* cooldown has gone on running down since, and is not yet over
C12_Witness ==
  /\ ~isPlaying
  /\ idleUpdate
  /\ handResults = NullResults
  /\ fireCount > 0
  /\ isPinching
  /\ pinchCooldown > 0
  /\ pinchCooldown < PinchCooldownInit
  /\ sinceFire = PinchCooldownInit - pinchCooldown

\* the steps that are a render tick
TickStep == \E dt \in DtSet : animate(dt)

\* the aim point: the crosshair's position, main.js:96-100
AimPoint(ch) == <<ch.left, ch.top>>

\* C16 (as claimed): aim point, isPinching and cooldown are written only
\* by the detection callback; a render tick leaves all three unchanged.
C16_TickLeavesGestureState ==
  [][/\ TickStep =>
          /\ AimPoint(crosshair') = AimPoint(crosshair)
          /\ UNCHANGED <<isPinching, pinchCooldown>>
     /\ ( \/ AimPoint(crosshair') # AimPoint(crosshair)
          \/ isPinching' # isPinching
          \/ pinchCooldown' # pinchCooldown ) => FrameStep
    ]_vars

\* C16 (amended): aim point and isPinching are written only by the
\* detection callback, and a render tick leaves them unchanged; the cooldown
\* is written by both: a fire event sets it to 0.5 s, and a render tick
\* that finds it positive takes dt off it.
C16_TickWritesCooldownOnly ==
  [][/\ TickStep =>
          /\ AimPoint(crosshair') = AimPoint(crosshair)
          /\ UNCHANGED isPinching
          /\ pinchCooldown' <= pinchCooldown
     /\ pinchCooldown' > pinchCooldown => (pinchCooldown' = PinchCooldownInit /\ FireStep)
     /\ pinchCooldown' < pinchCooldown => (pinchCooldown > 0 /\ TickStep)
     /\ ( /\ pinchCooldown' <= pinchCooldown
          /\ \/ AimPoint(crosshair') # AimPoint(crosshair)
             \/ isPinching' # isPinching ) => QuietFrame
    ]_vars

\* render ticks have run since a shot of a playing match: the latch is
\* still set and the crosshair is where the shot left it, and the cooldown
\* is part of the way down
C16_Witness ==
  /\ isPlaying
  /\ fireCount > 0
  /\ isPinching
  /\ crosshair.shooting
  /\ AimPoint(crosshair) = <<AimX(handResults.multiHandLandmarks[1]), AimY(handResults.multiHandLandmarks[1])>>
  /\ sinceFire > 0
  /\ pinchCooldown = PinchCooldownInit - sinceFire
  /\ pinchCooldown > 0

====
